---- MODULE Spec2Model ----
(***************************************************************************)
(* The assessment platform's backend: the JSON file store (JSONDatabase)   *)
(* and the HTTP handlers of server.ts that call it.                        *)
(*                                                                         *)
(* JavaScript values.  A value that may be `undefined` is a sequence of    *)
(* length 0 or 1: Undef is undefined, Some(v) is the value v.  An entity   *)
(* (question, assessment, submission) is a function from property names to *)
(* such values; a property that holds undefined and a property that is     *)
(* absent read alike in the code (no `in`, no Object.keys on entities), and *)
(* JSON.stringify drops the former, which JSONObj models.                  *)
(* Request bodies are drawn from small enumerated sets.                    *)
(***************************************************************************)
EXTENDS Integers, Sequences, FiniteSets, TLC

\* Bounds of the model.
MaxClock == 1
MaxQuestions == 2
MaxAssessments == 1
MaxSubmissions == 1
MaxSubmissionsKept == 2
MaxAssessmentsKept == 2
MaxSubmissionsListed == 3
MaxRequests == 2
MaxObjects == 3
MaxTotal == 40
MaxTimeLimit == 2
MaxManualSubmits == 1

VARIABLES
    data,   \* JSONDatabase.data: the three in-memory collections
    disk,   \* the three files <dbPath>/<collection>.json
    now,    \* the value Date.now() returns
    resp,   \* the last request handled and the response sent for it
    requests, \* the requests received whose handling is traced one by one
    refs,   \* the question objects and arrays by identity, and a list once returned
    calc,   \* the counts a submit is scored from, and the score once computed
    form,   \* formData of the question form of the challenge management page
    page    \* the state of the candidate page, its timer and the submits it sent

vars == <<data, disk, now, resp, requests, refs, calc, form, page>>

\* The variables that only the specifications about them change.
others == <<refs, calc, form, page>>

Collections == {"questions", "assessments", "submissions"}

----------------------------------------------------------------------------
\* JavaScript helpers.

Undef == <<>>
Some(v) == <<v>>

\* { ...a, ...b }: every own property of b, undefined ones included, wins.
Merge(a, b) == [k \in DOMAIN a \cup DOMAIN b |-> IF k \in DOMAIN b THEN b[k] ELSE a[k]]

\* JSON.stringify of an object: properties whose value is undefined are dropped.
JSONObj(e) == [k \in {j \in DOMAIN e : e[j] # Undef} |-> e[k]]

\* JSON.stringify of an array of entities.
JSONArr(coll) == [i \in 1..Len(coll) |-> JSONObj(coll[i])]

\* obj[k] on an object: undefined when the property is absent.
Prop(e, k) == IF k \in DOMAIN e THEN e[k] ELSE Undef

\* x || d for a string, a number, and an array or object (always truthy).
OrStr(x, d) == IF x = Undef \/ x = Some("") THEN Some(d) ELSE x
OrNum(x, d) == IF x = Undef \/ x = Some(0) THEN Some(d) ELSE x
OrObj(x, d) == IF x = Undef THEN Some(d) ELSE x

\* Date.now().toString()
NewId == Some(ToString(now))

\* new Date().toISOString(), read in the same handler turn as Date.now():
\* the instant is kept, its ISO text is not.
NowISO == Some(now)

----------------------------------------------------------------------------
\* JSONDatabase.

\* Mutant of FindIndex: a miss yields the last index instead of -1.
FindIndexOrLast(coll, id) == IF \E i \in 1..Len(coll) : Prop(coll[i], "id") = Some(id) THEN CHOOSE i \in 1..Len(coll) : Prop(coll[i], "id") = Some(id) /\ \A j \in 1..(i - 1) : Prop(coll[j], "id") # Some(id) ELSE Len(coll)

\* findIndex(e => e.id === id): 0 stands for -1, sequences being 1-based.
FindIndex(coll, id) == IF \E i \in 1..Len(coll) : Prop(coll[i], "id") = Some(id) THEN CHOOSE i \in 1..Len(coll) : Prop(coll[i], "id") = Some(id) /\ \A j \in 1..(i - 1) : Prop(coll[j], "id") # Some(id) ELSE 0

\* find(e => e.id === id): Some(entity) or Undef.
Find(coll, id) == IF FindIndex(coll, id) = 0 THEN Undef ELSE Some(coll[FindIndex(coll, id)])

getQuestion(id) == Find(data.questions, id)
getAssessment(id) == Find(data.assessments, id)
getSubmission(id) == Find(data.submissions, id)

\* The entity create<Kind> builds: { ...fields, id, <stamp>: ISO }.
NewEntity(fields, stamp) == Merge(fields, [k \in {"id", stamp} |-> IF k = "id" THEN NewId ELSE NowISO])

\* Mutant of saveCollection: every file is rewritten.
saveEveryCollection(collection, newData) == disk' = [c \in Collections |-> Some(JSONArr(newData[c]))]

\* saveCollection(collection), the write succeeding: the whole collection,
\* and only that file, is rewritten from memory.
saveCollection(collection, newData) == disk' = [disk EXCEPT ![collection] = Some(JSONArr(newData[collection]))]

----------------------------------------------------------------------------
\* JSONDatabase mutators.  Each yields the collections as the call leaves them;
\* the handler's action then persists the one collection it touched.

\* Mutant of Pushed: the new entity replaces the collection.
PushedOver(collection, entity) == [data EXCEPT ![collection] = <<entity>>]

\* createQuestion / createAssessment / createSubmission: push the new entity.
Pushed(collection, entity) == [data EXCEPT ![collection] = Append(@, entity)]

\* updateQuestion / updateAssessment at a found index:
\* { ...existing, ...updates, updatedAt: ISO }.
Updated(collection, index, updates) == [data EXCEPT ![collection][index] = Merge(Merge(@, updates), [updatedAt |-> NowISO])]

\* Mutant of Spliced: the delete cascades, taking the deleted id out of every
\* assessment's selectedChallenges.
SplicedCascade(collection, index) ==
    LET id == Prop(data[collection][index], "id")
        strip(a) == IF Prop(a, "selectedChallenges") = Undef THEN a ELSE [a EXCEPT !.selectedChallenges = Some(SelectSeq(@[1], LAMBDA x : Some(x) # id))]
    IN  [c \in Collections |->
            IF c = collection THEN [i \in 1..(Len(data[c]) - 1) |-> IF i < index THEN data[c][i] ELSE data[c][i + 1]]
            ELSE IF c = "assessments" THEN [i \in 1..Len(data[c]) |-> strip(data[c][i])]
            ELSE data[c]]

\* deleteQuestion at a found index: splice(index, 1).
Spliced(collection, index) == [data EXCEPT ![collection] = [i \in 1..(Len(@) - 1) |-> IF i < index THEN @[i] ELSE @[i + 1]]]

\* The mutation followed by saveCollection(collection).
Commit(collection, newData) ==
    /\ data' = newData
    /\ saveCollection(collection, newData)

\* A file that a failed write left holding a prefix of the JSON text, which
\* JSON.parse rejects.
PartialWrite == <<"partial", "write">>

\* saveCollection(collection) where fs.writeFileSync throws: the file keeps
\* its content or is left partly written, and the error is thrown on.
saveCollectionFails(collection) == \E content \in {disk[collection], PartialWrite} : disk' = [disk EXCEPT ![collection] = content]

\* The mutation followed by a saveCollection(collection) that throws: the
\* mutation of this.data has been made by then and nothing undoes it.
CommitFails(collection, newData) ==
    /\ data' = newData
    /\ saveCollectionFails(collection)

\* getQuestions() / getAssessments() / getSubmissions(): a copy of the
\* collection.
getQuestions == data.questions
getAssessments == data.assessments
getSubmissions == data.submissions

----------------------------------------------------------------------------
\* Scoring and access helpers of the handlers.

DefaultTimeLimit == 30
DefaultPassingScore == 70

\* selectedChallenges.includes(id)
Includes(sel, id) == \E i \in 1..Len(sel) : Some(sel[i]) = id

\* db.getQuestions().filter(q => assessment.selectedChallenges &&
\*    assessment.selectedChallenges.includes(q.id)): store order.
AssessmentQuestions(assessment) ==
    LET sel == Prop(assessment, "selectedChallenges")
        keep(q) == sel # Undef /\ Includes(sel[1], Prop(q, "id"))
    IN  SelectSeq(data.questions, keep)

\* Mutant of CandidateQuestion: the whole question is sent.
CandidateQuestionWithAnswer(q) == [k \in {"id", "question", "options", "correctAnswer", "difficulty", "category"} |-> Prop(q, k)]

\* The candidate view of a question: correctAnswer is not copied.
CandidateQuestion(q) == [k \in {"id", "question", "options", "difficulty", "category"} |-> Prop(q, k)]

\* String.prototype.trim on a string given as its sequence of characters.
Whitespace == {" "}
RECURSIVE TrimStart(_)
TrimStart(s) == IF s # <<>> /\ Head(s) \in Whitespace THEN TrimStart(Tail(s)) ELSE s
RECURSIVE TrimEnd(_)
TrimEnd(s) == IF s # <<>> /\ s[Len(s)] \in Whitespace THEN TrimEnd(SubSeq(s, 1, Len(s) - 1)) ELSE s
Trim(s) == TrimEnd(TrimStart(s))

\* Mutant of IsCorrect: an id that resolves to no question counts as correct.
IsCorrectOrUnresolved(answers, questionId) ==
    LET question == getQuestion(questionId)
    IN  question = Undef \/ Prop(answers, questionId) = Prop(question[1], "correctAnswer")

\* The forEach of the submit handler over selectedChallenges[i..]:
\* question && answers[questionId] === question.correctAnswer.
IsCorrect(answers, questionId) ==
    LET question == getQuestion(questionId)
    IN  question # Undef /\ Prop(answers, questionId) = Prop(question[1], "correctAnswer")
RECURSIVE CorrectCount(_, _, _)
CorrectCount(sel, answers, i) == IF i > Len(sel) THEN 0 ELSE (IF IsCorrect(answers, sel[i]) THEN 1 ELSE 0) + CorrectCount(sel, answers, i + 1)

\* Mutant of Score: the score depends on when the submit is handled.
ScoreLessLateness(correctCount, totalQuestions) == IF totalQuestions > 0 THEN ((200 * correctCount + totalQuestions) \div (2 * totalQuestions)) - now ELSE 0

\* JavaScript numbers are IEEE-754 doubles.  A non-zero double is kept as
\* [mant, exp]: mant is its 53-bit significand in three limbs <<h, m, l>>
\* of 17, 18 and 18 bits (h * Limb^2 + m * Limb + l, the top bit of h set),
\* and the value is that significand * 2^(exp - 52).  Zero is FloatZero.
Limb == 262144
TopBit == 65536
FloatZero == [mant |-> <<0, 0, 0>>, exp |-> 0]

RECURSIVE Pow2(_)
Pow2(k) == IF k = 0 THEN 1 ELSE 2 * Pow2(k - 1)

\* Round to nearest, ties to even: mant is the significand cut off, guard
\* the first bit cut off, sticky tells of a non-zero bit after it.
RoundToDouble(mant, guard, sticky, exp) ==
    LET up == guard /\ (sticky \/ (mant[3] % 2) = 1)
        l == mant[3] + (IF up THEN 1 ELSE 0)
        m == mant[2] + l \div Limb
        h == mant[1] + m \div Limb
    IN  IF h = 2 * TopBit THEN [mant |-> <<TopBit, 0, 0>>, exp |-> exp + 1] ELSE [mant |-> <<h, m % Limb, l % Limb>>, exp |-> exp]

\* The least k with a * 2^k >= b.
RECURSIVE ShiftsUp(_, _)
ShiftsUp(a, b) == IF a >= b THEN 0 ELSE 1 + ShiftsUp(2 * a, b)

\* The greatest k with b * 2^k <= a, for a >= b.
RECURSIVE ShiftsDown(_, _)
ShiftsDown(a, b) == IF 2 * b > a THEN 0 ELSE 1 + ShiftsDown(a, 2 * b)

\* a / b of two non-negative integers below 2^12 (b > 0), as the double the
\* division gives: the quotient correctly rounded.  The long division
\* yields the limbs one by one.
Quotient(a, b) ==
    IF a = 0 THEN FloatZero
    ELSE LET up == ShiftsUp(a, b)
             down == IF a >= b THEN ShiftsDown(a, b) ELSE 0
             num == a * Pow2(up)
             den == b * Pow2(down)
             h == (num * TopBit) \div den
             rh == (num * TopBit) % den
             m == (rh * Limb) \div den
             rm == (rh * Limb) % den
             l == (rm * Limb) \div den
             rl == (rm * Limb) % den
         IN  RoundToDouble(<<h, m, l>>, 2 * rl >= den, rl # 0 /\ 2 * rl # den, down - up)

\* x * 100 in doubles: the product correctly rounded.  The product of the
\* significand has 59 or 60 bits, of which the last 6 or 7 are cut off.
Times100(x) ==
    IF x = FloatZero THEN FloatZero
    ELSE LET pl == x.mant[3] * 100
             pm == x.mant[2] * 100 + pl \div Limb
             ph == x.mant[1] * 100 + pm \div Limb
             cut == IF ph < 128 * TopBit THEN 6 ELSE 7
             d == Pow2(cut)
             dropped == (pl % Limb) % d
             h == ph \div d
             m == (ph % d) * (Limb \div d) + (pm % Limb) \div d
             l == ((pm % Limb) % d) * (Limb \div d) + (pl % Limb) \div d
         IN  RoundToDouble(<<h, m, l>>, dropped >= d \div 2, dropped % (d \div 2) # 0, x.exp + cut)

\* Math.round(x) for 0 <= x < 2^16: the nearest integer, a half going up.
MathRound(x) ==
    IF x = FloatZero \/ x.exp < -1 THEN 0
    ELSE IF x.exp = -1 THEN 1
    ELSE (x.mant[1] \div Pow2(16 - x.exp)) + ((x.mant[1] \div Pow2(15 - x.exp)) % 2)

\* totalQuestions > 0 ? Math.round((correctCount / totalQuestions) * 100) : 0
Score(correctCount, totalQuestions) == IF totalQuestions > 0 THEN MathRound(Times100(Quotient(correctCount, totalQuestions))) ELSE 0

\* score >= (assessment.passingScore || 70)
Passed(score, assessment) == score >= OrNum(Prop(assessment, "passingScore"), DefaultPassingScore)[1]

\* Mutant of PasswordRequired: any supplied credential passes.
PasswordRequiredIfNoneSupplied(assessment, providedPassword) == Prop(assessment, "password") # Undef /\ providedPassword = Undef

\* assessment.password && assessment.password !== providedPassword
PasswordRequired(assessment, providedPassword) ==
    LET password == Prop(assessment, "password")
    IN  password # Undef /\ password # Some("") /\ password # providedPassword

----------------------------------------------------------------------------
\* Requests.

RequestIds == {ToString(t) : t \in 0..MaxClock}

QuestionBodies ==
    { [question |-> Some("Q"), options |-> Some(<<"a", "b">>), correctAnswer |-> Some(1), difficulty |-> Some("easy"), category |-> Some("Math")],
      [options |-> Some(<<"a", "b">>)],
      [options |-> Some(<<"a", "b">>), correctAnswer |-> Some(2)] }

QuestionUpdateBodies ==
    { [question |-> Some("Q2")],
      [options |-> Some(<<"a">>), correctAnswer |-> Some(0)] }

SelectedChallengesChoices == {<<>>, <<"1", "0">>}

AssessmentBodies ==
    UNION { { [title |-> Some("T"), description |-> Some("D"), selectedChallenges |-> Some(sel), timeLimit |-> Some(15), passingScore |-> Some(50), password |-> Some("abc123")],
              [selectedChallenges |-> Some(sel), passingScore |-> Some(0), password |-> Some("")] } : sel \in SelectedChallengesChoices }
        \cup { [k \in {} |-> Undef], [passingScore |-> Some(150)] }

\* The x-assessment-password header: absent, or its text.
Credentials == {Undef, Some("abc123"), Some("wrong")}

\* answers: question id -> selected option index.
AnswerMaps == { [k \in {} |-> Undef], [k \in {"0", "1"} |-> Some(1)] }

\* candidateEmail is a string, given as its sequence of characters.
SubmissionBodies ==
    { [answers |-> Some(a), candidateEmail |-> Some(<<" ", "a", " ">>)] : a \in AnswerMaps }
        \cup { [answers |-> Some([k \in {"0", "1"} |-> Some(1)])],
               [answers |-> Some([k \in {} |-> Undef]), candidateEmail |-> Some(<<" ">>)],
               [candidateEmail |-> Some(<<>>)] }

----------------------------------------------------------------------------
\* The question form of the challenge management page: the options and the
\* index (from 0) of the correct one.  options[i + 1] is the option of index i.

\* useState initial value and resetForm
FormReset == [options |-> <<"", "", "", "">>, correctAnswer |-> 0]

\* What is typed into an option.
OptionTexts == {"", "x"}

\* The options without the one of the given index: filter((_, i) => i !== index)
WithoutOption(options, index) == [i \in 1..(Len(options) - 1) |-> IF i <= index THEN options[i] ELSE options[i + 1]]

\* Mutant of CorrectAfterRemove: the index is left as it is.
CorrectKept(correctAnswer, index) == correctAnswer

\* correctAnswer >= index ? Math.max(0, correctAnswer - 1) : correctAnswer
CorrectAfterRemove(correctAnswer, index) ==
    IF correctAnswer >= index THEN (IF correctAnswer - 1 > 0 THEN correctAnswer - 1 ELSE 0) ELSE correctAnswer

ResetForm ==
    /\ form' = FormReset
    /\ UNCHANGED <<data, disk, now, resp, requests, refs, calc, page>>

\* handleOptionChange(index, value), from the input of a rendered option
OptionChange ==
    \E index \in 0..(Len(form.options) - 1), value \in OptionTexts :
        /\ form' = [form EXCEPT !.options[index + 1] = value]
        /\ UNCHANGED <<data, disk, now, resp, requests, refs, calc, page>>

\* addOption()
AddOption ==
    /\ form' = IF Len(form.options) < 6 THEN [form EXCEPT !.options = Append(@, "")] ELSE form
    /\ UNCHANGED <<data, disk, now, resp, requests, refs, calc, page>>

\* removeOption(index), from the button of a rendered option
RemoveOption ==
    \E index \in 0..(Len(form.options) - 1) :
        /\ form' = IF Len(form.options) > 2
                   THEN [options |-> WithoutOption(form.options, index), correctAnswer |-> CorrectAfterRemove(form.correctAnswer, index)]
                   ELSE form
        /\ UNCHANGED <<data, disk, now, resp, requests, refs, calc, page>>

\* The radio button of a rendered option: correctAnswer: index
SelectCorrect ==
    \E index \in 0..(Len(form.options) - 1) :
        /\ form' = [form EXCEPT !.correctAnswer = index]
        /\ UNCHANGED <<data, disk, now, resp, requests, refs, calc, page>>

----------------------------------------------------------------------------
\* The candidate page (CandidateInterface).  Its numbers are kept as
\* multiples of 1/Fraction, which doubles hold exactly: a timeLimit of k is
\* k/Fraction minutes and a timeRemaining of v is v/Fraction seconds.
\* page.effect tells that the timer effect is due to run for changed
\* dependencies, page.timer that its timeout is set; page.sent holds the
\* submit requests issued and page.awaiting counts those not yet answered.
Fraction == 8

\* assessment.timeLimit as the take route may deliver it.
TimeLimits == 0..MaxTimeLimit

\* What is typed into the email field.
EmailInputs == { <<>>, <<" ">>, <<"a", "@", "b">>, <<" ", "a", "@", "b", ".", "c", " ">> }

\* /^[^\s@]+@[^\s@]+\.[^\s@]+$/ .test(email)
EmailValid(email) ==
    \E at \in 2..Len(email) :
        /\ email[at] = "@"
        /\ \A i \in (1..Len(email)) \ {at} : email[i] \notin Whitespace \cup {"@"}
        /\ \E dot \in (at + 2)..(Len(email) - 1) : email[dot] = "."

\* The state of the component when it is mounted.
PageMounted ==
    [assessment |-> Undef, emailRequired |-> FALSE, candidateEmail |-> <<>>, emailError |-> "",
     assessmentStarted |-> FALSE, timeRemaining |-> Undef, submitted |-> FALSE,
     effect |-> FALSE, timer |-> FALSE, sent |-> <<>>, awaiting |-> 0, clicks |-> 0]

PageUnchanged == UNCHANGED <<data, disk, now, resp, requests, refs, calc, form>>

\* loadAssessment() succeeding: the email is asked for next.
LoadAssessment ==
    \E timeLimit \in TimeLimits :
        /\ page.assessment = Undef
        /\ page' = [page EXCEPT !.assessment = Some([timeLimit |-> timeLimit]), !.emailRequired = TRUE]
        /\ PageUnchanged

\* onChange of the email field, which the email screen renders.
ChangeEmail ==
    \E email \in EmailInputs :
        /\ ~page.submitted /\ page.emailRequired
        /\ page' = [page EXCEPT !.candidateEmail = email]
        /\ PageUnchanged

\* handleEmailSubmit, from the form of the email screen
HandleEmailSubmit ==
    /\ ~page.submitted /\ page.emailRequired
    /\ page' = IF Trim(page.candidateEmail) = <<>>
               THEN [page EXCEPT !.emailError = "Email address is required"]
               ELSE IF ~EmailValid(Trim(page.candidateEmail))
               THEN [page EXCEPT !.emailError = "Please enter a valid email address"]
               ELSE [page EXCEPT !.emailError = "", !.emailRequired = FALSE, !.assessmentStarted = TRUE,
                                 !.timeRemaining = IF page.assessment[1].timeLimit # 0 THEN Some(page.assessment[1].timeLimit * 60) ELSE Undef,
                                 !.effect = TRUE]
    /\ PageUnchanged

\* handleSubmit up to its await: nothing without an email, else the request
\* submitAssessment(id, candidateEmail.trim(), answers) is issued.
SubmitSent(p) ==
    IF Trim(p.candidateEmail) = <<>> THEN p
    ELSE [p EXCEPT !.sent = Append(@, [candidateEmail |-> Trim(p.candidateEmail)]), !.awaiting = @ + 1]

\* The timer effect, run after a render in which timeRemaining or
\* assessmentStarted changed.
RunEffect ==
    /\ page.effect
    /\ page' = IF page.assessmentStarted /\ page.timeRemaining # Undef /\ page.timeRemaining[1] > 0
               THEN [page EXCEPT !.effect = FALSE, !.timer = TRUE]
               ELSE IF page.timeRemaining = Some(0)
               THEN SubmitSent([page EXCEPT !.effect = FALSE])
               ELSE [page EXCEPT !.effect = FALSE]
    /\ PageUnchanged

\* The timeout of the timer effect, after 1000 ms: setTimeRemaining(timeRemaining - 1)
TimerFires ==
    /\ page.timer
    /\ page' = [page EXCEPT !.timeRemaining = Some(page.timeRemaining[1] - Fraction), !.timer = FALSE, !.effect = TRUE]
    /\ PageUnchanged

\* The Submit Assessment button, which the question screen renders.
ClickSubmit ==
    /\ ~page.submitted /\ ~page.emailRequired /\ page.assessmentStarted
    /\ page.clicks < MaxManualSubmits
    /\ page' = SubmitSent([page EXCEPT !.clicks = @ + 1])
    /\ PageUnchanged

\* A submit request is answered: setSubmitted(true), or the catch that logs.
SubmitAnswered ==
    \E ok \in BOOLEAN :
        /\ page.awaiting > 0
        /\ page' = [page EXCEPT !.awaiting = @ - 1, !.submitted = @ \/ ok]
        /\ PageUnchanged

----------------------------------------------------------------------------
\* Handlers.  resp records the request (op, params, req) and the response
\* (status, body as res.json serializes it).

Respond(op, params, body, status, out) == resp' = [op |-> op, params |-> params, req |-> body, status |-> status, body |-> out]

Init ==
    /\ data = [c \in Collections |-> <<>>]
    /\ disk = [c \in Collections |-> Undef]
    /\ now = 0
    /\ resp = [op |-> "none", params |-> Undef, req |-> Undef, status |-> 0, body |-> Undef]
    /\ requests = <<>>
    /\ refs = [objects |-> <<>>, arrays |-> [store |-> <<>>, copy |-> <<>>], list |-> Undef, seen |-> Undef]
    /\ calc = [correctCount |-> 0, totalQuestions |-> 0, score |-> Undef]
    /\ form = FormReset
    /\ page = PageMounted

\* The clock advances between requests.
Tick ==
    /\ now < MaxClock
    /\ now' = now + 1
    /\ UNCHANGED <<data, disk, resp, requests, others>>

\* questionData of POST /api/challenges: the body's fields, defaulted with ||.
QuestionData(body) ==
    [question |-> OrStr(Prop(body, "question"), ""),
     options |-> OrObj(Prop(body, "options"), <<>>),
     correctAnswer |-> OrNum(Prop(body, "correctAnswer"), 0),
     difficulty |-> OrStr(Prop(body, "difficulty"), "medium"),
     category |-> OrStr(Prop(body, "category"), "General")]

\* POST /api/challenges with a given body
PostChallengeRequest(body) ==
    LET question == NewEntity(QuestionData(body), "createdAt")
    IN  /\ Len(data.questions) < MaxQuestions
        /\ Commit("questions", Pushed("questions", question))
        /\ Respond("postChallenge", Undef, body, 201, [challenge |-> JSONObj(question)])
        /\ UNCHANGED <<now, requests, others>>

\* POST /api/challenges
PostChallenge == \E body \in QuestionBodies : PostChallengeRequest(body)

\* PUT /api/challenges/:id
PutChallenge ==
    \E id \in RequestIds, body \in QuestionUpdateBodies :
        LET updates == [k \in {"question", "options", "correctAnswer", "difficulty", "category"} |-> Prop(body, k)]
            index == FindIndex(data.questions, id)
            newData == Updated("questions", index, updates)
        IN  /\ IF index = 0
               THEN /\ Respond("putChallenge", id, body, 404, [error |-> "Question not found"])
                    /\ UNCHANGED <<data, disk>>
               ELSE /\ Commit("questions", newData)
                    /\ Respond("putChallenge", id, body, 200, [challenge |-> JSONObj(newData.questions[index])])
            /\ UNCHANGED <<now, requests, others>>

\* DELETE /api/challenges/:id
DeleteChallenge ==
    \E id \in RequestIds :
        LET index == FindIndex(data.questions, id)
        IN  /\ IF index = 0
               THEN /\ Respond("deleteChallenge", id, Undef, 404, [error |-> "Question not found"])
                    /\ UNCHANGED <<data, disk>>
               ELSE /\ Commit("questions", Spliced("questions", index))
                    /\ Respond("deleteChallenge", id, Undef, 200, [message |-> "Question deleted successfully"])
            /\ UNCHANGED <<now, requests, others>>

\* POST /api/assessments with a given body, while the store holds fewer
\* than cap assessments.
PostAssessmentRequest(body, cap) ==
    LET password == Prop(body, "password")
        assessmentData ==
            [title |-> OrStr(Prop(body, "title"), ""),
             description |-> OrStr(Prop(body, "description"), ""),
             selectedChallenges |-> OrObj(Prop(body, "selectedChallenges"), <<>>),
             timeLimit |-> OrNum(Prop(body, "timeLimit"), DefaultTimeLimit),
             passingScore |-> OrNum(Prop(body, "passingScore"), DefaultPassingScore),
             password |-> IF password = Some("") THEN Undef ELSE password]
        assessment == NewEntity(assessmentData, "createdAt")
        responseAssessment == [k \in DOMAIN assessment \ {"password"} |-> assessment[k]]
    IN  /\ Len(data.assessments) < cap
        /\ Commit("assessments", Pushed("assessments", assessment))
        /\ Respond("postAssessment", Undef, body, 201, [assessment |-> JSONObj(responseAssessment)])
        /\ UNCHANGED <<now, requests, others>>

\* POST /api/assessments
PostAssessment == \E body \in AssessmentBodies : PostAssessmentRequest(body, MaxAssessments)

\* The body of GET /api/assessments/:id for a found assessment.
AuthoringView(assessment) == JSONObj(Merge(assessment, [challenges |-> Some(JSONArr(AssessmentQuestions(assessment)))]))

\* GET /api/assessments/:id
GetAssessment ==
    \E id \in RequestIds :
        LET assessment == getAssessment(id)
        IN  /\ IF assessment = Undef
               THEN Respond("getAssessment", id, Undef, 404, [error |-> "Assessment not found"])
               ELSE Respond("getAssessment", id, Undef, 200, [assessment |-> AuthoringView(assessment[1])])
            /\ UNCHANGED <<data, disk, now, requests, others>>

\* The body of GET /api/assessments/:id/take once access is granted.
CandidateView(assessment) ==
    LET questions == AssessmentQuestions(assessment)
        assessmentQuestions == [i \in 1..Len(questions) |-> JSONObj(CandidateQuestion(questions[i]))]
    IN  JSONObj(Merge(assessment, [k \in {"password", "challenges"} |-> IF k = "password" THEN Undef ELSE Some(assessmentQuestions)]))

\* GET /api/assessments/:id/take
TakeAssessment ==
    \E id \in RequestIds, providedPassword \in Credentials :
        LET assessment == getAssessment(id)
            headers == [password |-> providedPassword]
        IN  /\ IF assessment = Undef
               THEN Respond("takeAssessment", id, headers, 404, [error |-> "Assessment not found"])
               ELSE IF PasswordRequired(assessment[1], providedPassword)
               THEN Respond("takeAssessment", id, headers, 401, [error |-> "Password required", requiresPassword |-> TRUE])
               ELSE Respond("takeAssessment", id, headers, 200, [assessment |-> CandidateView(assessment[1])])
            /\ UNCHANGED <<data, disk, now, requests, others>>

\* The submission the submit handler hands to createSubmission.
SubmissionData(id, assessment, answers, candidateEmail) ==
    LET sel == Prop(assessment, "selectedChallenges")
        totalQuestions == IF sel # Undef THEN Len(sel[1]) ELSE 0
        correctCount == IF sel # Undef THEN CorrectCount(sel[1], answers, 1) ELSE 0
        score == Score(correctCount, totalQuestions)
    IN  [assessmentId |-> Some(id),
         candidateEmail |-> Some(Trim(candidateEmail)),
         answers |-> Some(answers),
         score |-> Some(score),
         correctCount |-> Some(correctCount),
         totalQuestions |-> Some(totalQuestions),
         passed |-> Some(Passed(score, assessment))]

\* Mutant of EmailMissing: the email is tested without trimming.
EmailMissingUntrimmed(candidateEmail) == candidateEmail = <<>>

\* !candidateEmail.trim(): the email check of the submit handler.
EmailMissing(candidateEmail) == Trim(candidateEmail) = <<>>

\* POST /api/assessments/:id/submit with a given id and body, while the
\* store holds fewer than cap submissions; req is the request as recorded.
SubmitRequest(id, body, req, cap) ==
    LET assessment == getAssessment(id)
        answers == OrObj(Prop(body, "answers"), <<>>)[1]
        candidateEmail == OrObj(Prop(body, "candidateEmail"), <<>>)[1]
        submission == NewEntity(SubmissionData(id, assessment[1], answers, candidateEmail), "submittedAt")
    IN  /\ IF assessment = Undef
           THEN /\ Respond("submitAssessment", id, req, 404, [error |-> "Assessment not found"])
                /\ UNCHANGED <<data, disk>>
           ELSE IF EmailMissing(candidateEmail)
           THEN /\ Respond("submitAssessment", id, req, 400, [error |-> "Candidate email is required"])
                /\ UNCHANGED <<data, disk>>
           ELSE /\ Len(data.submissions) < cap
                /\ Commit("submissions", Pushed("submissions", submission))
                /\ Respond("submitAssessment", id, req, 201, [submission |-> JSONObj(submission)])
        /\ UNCHANGED <<now, requests, others>>

\* POST /api/assessments/:id/submit, while the store holds fewer than cap
\* submissions.
Submit(cap) == \E id \in RequestIds, body \in SubmissionBodies : SubmitRequest(id, body, body, cap)

SubmitAssessment == Submit(MaxSubmissions)

\* The same handler where several submissions are kept.
SubmitRepeatedly == Submit(MaxSubmissionsKept)

\* db.updateAssessment(id, updates), called on the exported store directly
\* (no route of server.ts reaches it).
AssessmentUpdates == { [passingScore |-> Some(0)] }

UpdateAssessment ==
    \E id \in RequestIds, updates \in AssessmentUpdates :
        LET index == FindIndex(data.assessments, id)
            newData == Updated("assessments", index, updates)
        IN  /\ IF index = 0
               THEN /\ Respond("updateAssessment", id, updates, 0, Undef)
                    /\ UNCHANGED <<data, disk>>
               ELSE /\ Commit("assessments", newData)
                    /\ Respond("updateAssessment", id, updates, 0, Some(newData.assessments[index]))
            /\ UNCHANGED <<now, requests, others>>

\* Mutant of GetChallenges: the list is this.data.questions.reverse(), which
\* reverses the stored array in place.
GetChallengesReversing ==
    LET reversed == [i \in 1..Len(data.questions) |-> data.questions[Len(data.questions) + 1 - i]]
    IN  /\ data' = [data EXCEPT !.questions = reversed]
        /\ Respond("getChallenges", Undef, Undef, 200, [challenges |-> JSONArr(reversed)])
        /\ UNCHANGED <<disk, now, requests, others>>

\* GET /api/challenges
GetChallenges ==
    /\ Respond("getChallenges", Undef, Undef, 200, [challenges |-> JSONArr(getQuestions)])
    /\ UNCHANGED <<data, disk, now, requests, others>>

\* GET /api/challenges/:id
GetChallenge ==
    \E id \in RequestIds :
        LET question == getQuestion(id)
        IN  /\ IF question = Undef
               THEN Respond("getChallenge", id, Undef, 404, [error |-> "Question not found"])
               ELSE Respond("getChallenge", id, Undef, 200, [challenge |-> JSONObj(question[1])])
            /\ UNCHANGED <<data, disk, now, requests, others>>

\* GET /api/assessments
GetAssessments ==
    /\ Respond("getAssessments", Undef, Undef, 200, [assessments |-> JSONArr(getAssessments)])
    /\ UNCHANGED <<data, disk, now, requests, others>>

\* assessment?.<k> || d for the assessment a submission names.
AssessmentText(submission, k, d) ==
    LET assessmentId == Prop(submission, "assessmentId")
        assessment == IF assessmentId = Undef THEN Undef ELSE getAssessment(assessmentId[1])
    IN  OrStr(IF assessment = Undef THEN Undef ELSE Prop(assessment[1], k), d)

\* GET /api/submissions: each submission with its assessment's title and
\* description.
EnrichedSubmission(submission) ==
    Merge(submission, [assessmentTitle |-> AssessmentText(submission, "title", "Unknown Assessment"),
                       assessmentDescription |-> AssessmentText(submission, "description", "")])

GetSubmissions ==
    /\ Respond("getSubmissions", Undef, Undef, 200, [submissions |-> [i \in 1..Len(getSubmissions) |-> JSONObj(EnrichedSubmission(getSubmissions[i]))]])
    /\ UNCHANGED <<data, disk, now, requests, others>>

\* Mutant of DetailedAnswers: an id that does not resolve gets an entry too.
DetailedAnswersUnresolvedToo(submission) ==
    LET assessment == getAssessment(Prop(submission, "assessmentId")[1])
        sel == IF assessment = Undef THEN Undef ELSE Prop(assessment[1], "selectedChallenges")
        ids == IF sel = Undef THEN {} ELSE { sel[1][i] : i \in 1..Len(sel[1]) }
        answers == Prop(submission, "answers")[1]
        detail(questionId) ==
            LET question == IF getQuestion(questionId) = Undef THEN [k \in {} |-> Undef] ELSE getQuestion(questionId)[1]
            IN  JSONObj([question |-> Prop(question, "question"),
                         options |-> Prop(question, "options"),
                         correctAnswer |-> Prop(question, "correctAnswer"),
                         candidateAnswer |-> Prop(answers, questionId),
                         isCorrect |-> Some(Prop(answers, questionId) = Prop(question, "correctAnswer"))])
    IN  [questionId \in ids |-> detail(questionId)]

\* detailedAnswers of GET /api/submissions/:id: one entry per id of the
\* assessment's selectedChallenges that resolves to a stored question.
DetailedAnswers(submission) ==
    LET assessment == getAssessment(Prop(submission, "assessmentId")[1])
        sel == IF assessment = Undef THEN Undef ELSE Prop(assessment[1], "selectedChallenges")
        ids == IF sel = Undef THEN {} ELSE { sel[1][i] : i \in 1..Len(sel[1]) }
        answers == Prop(submission, "answers")[1]
        detail(questionId) ==
            LET question == getQuestion(questionId)[1]
            IN  JSONObj([question |-> Prop(question, "question"),
                         options |-> Prop(question, "options"),
                         correctAnswer |-> Prop(question, "correctAnswer"),
                         candidateAnswer |-> Prop(answers, questionId),
                         isCorrect |-> Some(Prop(answers, questionId) = Prop(question, "correctAnswer"))])
    IN  [questionId \in { id \in ids : getQuestion(id) # Undef } |-> detail(questionId)]

\* GET /api/submissions/:id
GetSubmission ==
    \E id \in RequestIds :
        LET submission == getSubmission(id)
            detailed == Merge(submission[1], [assessmentTitle |-> AssessmentText(submission[1], "title", "Unknown Assessment"),
                                              detailedAnswers |-> Some(DetailedAnswers(submission[1]))])
        IN  /\ IF submission = Undef
               THEN Respond("getSubmission", id, Undef, 404, [error |-> "Submission not found"])
               ELSE Respond("getSubmission", id, Undef, 200, [submission |-> JSONObj(detailed)])
            /\ UNCHANGED <<data, disk, now, requests, others>>

\* POST /api/challenges where the write of questions.json fails: createQuestion
\* throws after the push and the handler's catch answers 500.
PostChallengeWriteFails ==
    \E body \in QuestionBodies :
        LET question == NewEntity(QuestionData(body), "createdAt")
        IN  /\ Len(data.questions) < MaxQuestions
            /\ CommitFails("questions", Pushed("questions", question))
            /\ Respond("postChallenge", Undef, body, 500, [error |-> "Failed to create question"])
            /\ UNCHANGED <<now, requests, others>>

\* PUT /api/challenges/:id on a stored question where the write fails.
PutChallengeWriteFails ==
    \E id \in RequestIds, body \in QuestionUpdateBodies :
        LET updates == [k \in {"question", "options", "correctAnswer", "difficulty", "category"} |-> Prop(body, k)]
            index == FindIndex(data.questions, id)
        IN  /\ index # 0
            /\ CommitFails("questions", Updated("questions", index, updates))
            /\ Respond("putChallenge", id, body, 500, [error |-> "Failed to update question"])
            /\ UNCHANGED <<now, requests, others>>

\* DELETE /api/challenges/:id on a stored question where the write fails.
DeleteChallengeWriteFails ==
    \E id \in RequestIds :
        LET index == FindIndex(data.questions, id)
        IN  /\ index # 0
            /\ CommitFails("questions", Spliced("questions", index))
            /\ Respond("deleteChallenge", id, Undef, 500, [error |-> "Failed to delete question"])
            /\ UNCHANGED <<now, requests, others>>

\* Mutant of HandlerData: the handler works on the collections as they were
\* when its request arrived.
HandlerDataAtArrival(request) == [data EXCEPT !.questions = request.snapshot]

\* The collections a handler works on: this.data of the one db instance, as
\* it is when the handler runs.
HandlerData(request) == data

\* A POST /api/challenges request reaches the server while requests received
\* before it may still wait for their handler to run.  snapshot notes what
\* the store held at that moment; status 0 stands for no response yet.
ReceivePostChallenge ==
    \E body \in QuestionBodies :
        /\ Len(requests) < MaxRequests
        /\ requests' = Append(requests, [body |-> body, snapshot |-> data.questions, status |-> 0, out |-> Undef])
        /\ UNCHANGED <<data, disk, now, resp, others>>

\* The event loop runs the handler of one waiting POST /api/challenges to
\* completion: the handler, createQuestion and fs.writeFileSync are
\* synchronous, so no other handler runs in between.
ServePostChallenge ==
    \E i \in 1..Len(requests) :
        LET request == requests[i]
            question == NewEntity(QuestionData(request.body), "createdAt")
            newData == [HandlerData(request) EXCEPT !.questions = Append(@, question)]
        IN  /\ request.status = 0
            /\ Len(data.questions) < MaxQuestions
            /\ Commit("questions", newData)
            /\ Respond("postChallenge", Undef, request.body, 201, [challenge |-> JSONObj(question)])
            /\ requests' = [requests EXCEPT ![i] = [@ EXCEPT !.status = 201, !.out = Some(JSONObj(question))]]
            /\ UNCHANGED <<now, others>>

----------------------------------------------------------------------------
\* The question methods of the exported store with objects and arrays taken
\* by identity.  refs.objects[a] is the object at address a;
\* refs.arrays.store is the array this.data.questions, holding addresses;
\* refs.list names the array a getQuestions call returned and refs.seen is
\* what that array held when it was returned.  data.questions is kept as
\* the objects of the store array.

\* The content of an array of addresses.
Deref(array) == [i \in 1..Len(array) |-> refs.objects[array[i]]]

\* Mutant of Reassigned: the update is written into the existing object
\* (Object.assign(this.data.questions[index], ...)).
AssignedInPlace(index, entity) == [refs EXCEPT !.objects[refs.arrays.store[index]] = entity]

\* this.data.questions[index] = { ... }: a new object takes the slot.
Reassigned(index, entity) == [refs EXCEPT !.objects = Append(@, entity), !.arrays.store[index] = Len(refs.objects) + 1]

\* db.createQuestion(question)
CreateQuestion ==
    \E body \in QuestionBodies :
        LET question == NewEntity(QuestionData(body), "createdAt")
        IN  /\ Len(data.questions) < MaxQuestions
            /\ Len(refs.objects) < MaxObjects
            /\ refs' = [refs EXCEPT !.objects = Append(@, question), !.arrays.store = Append(@, Len(refs.objects) + 1)]
            /\ Commit("questions", Pushed("questions", question))
            /\ Respond("createQuestion", Undef, body, 0, Some(question))
            /\ UNCHANGED <<now, requests, calc, form, page>>

\* db.updateQuestion(id, updates) on a stored id
UpdateQuestion ==
    \E id \in RequestIds, updates \in QuestionUpdateBodies :
        LET index == FindIndex(data.questions, id)
            newData == Updated("questions", index, updates)
        IN  /\ index # 0
            /\ Len(refs.objects) < MaxObjects
            /\ refs' = Reassigned(index, newData.questions[index])
            /\ Commit("questions", newData)
            /\ Respond("updateQuestion", id, updates, 0, Some(newData.questions[index]))
            /\ UNCHANGED <<now, requests, calc, form, page>>

\* db.deleteQuestion(id) on a stored id: splice(index, 1) on the store array.
DeleteQuestion ==
    \E id \in RequestIds :
        LET index == FindIndex(data.questions, id)
        IN  /\ index # 0
            /\ refs' = [refs EXCEPT !.arrays.store = [i \in 1..(Len(@) - 1) |-> IF i < index THEN @[i] ELSE @[i + 1]]]
            /\ Commit("questions", Spliced("questions", index))
            /\ Respond("deleteQuestion", id, Undef, 0, Some(TRUE))
            /\ UNCHANGED <<now, requests, calc, form, page>>

\* db.getQuestions(): [...this.data.questions], a new array holding the same
\* objects; the caller keeps it.
GetQuestions ==
    /\ refs' = [refs EXCEPT !.arrays.copy = refs.arrays.store, !.list = Some("copy"), !.seen = Some(Deref(refs.arrays.store))]
    /\ Respond("getQuestions", Undef, Undef, 0, Some(getQuestions))
    /\ UNCHANGED <<data, disk, now, requests, calc, form, page>>

----------------------------------------------------------------------------
\* The results route, with the requests that fill the store for it.

\* this.data.submissions.filter(s => s.assessmentId === assessmentId)
getSubmissionsByAssessment(assessmentId) ==
    LET ofAssessment(s) == Prop(s, "assessmentId") = Some(assessmentId)
    IN  SelectSeq(data.submissions, ofAssessment)

\* reduce((sum, s) => sum + (s.score || 0), 0)
RECURSIVE SumScores(_)
SumScores(submissions) == IF submissions = <<>> THEN 0 ELSE OrNum(Prop(Head(submissions), "score"), 0)[1] + SumScores(Tail(submissions))

\* Mutant of PassedOnes: every submission counts as passed.
PassedOrNot(submissions) == submissions

\* filter(s => s.passed)
PassedOnes(submissions) ==
    LET passed(s) == Prop(s, "passed") = Some(TRUE)
    IN  SelectSeq(submissions, passed)

\* The stats object of the results route.
Stats(assessmentSubmissions) ==
    LET length == Len(assessmentSubmissions)
    IN  [totalSubmissions |-> length,
         averageScore |-> IF length > 0 THEN MathRound(Quotient(SumScores(assessmentSubmissions), length)) ELSE 0,
         passRate |-> IF length > 0 THEN MathRound(Times100(Quotient(Len(PassedOnes(assessmentSubmissions)), length))) ELSE 0,
         submissions |-> JSONArr(assessmentSubmissions)]

\* GET /api/assessments/:id/results
GetResults ==
    \E id \in RequestIds :
        LET assessmentSubmissions == getSubmissionsByAssessment(id)
            assessment == getAssessment(id)
        IN  /\ IF assessment = Undef
               THEN Respond("getResults", id, Undef, 404, [error |-> "Assessment not found"])
               ELSE Respond("getResults", id, Undef, 200, [assessment |-> JSONObj(assessment[1]), results |-> Stats(assessmentSubmissions), message |-> "Assessment results retrieved successfully"])
            /\ UNCHANGED <<data, disk, now, requests, others>>

\* The bodies posted before results are asked for.
ResultsQuestionBodies == { [question |-> Some("Q"), options |-> Some(<<"a", "b">>), correctAnswer |-> Some(1), difficulty |-> Some("easy"), category |-> Some("Math")] }
ResultsAssessmentBodies == { [title |-> Some("T"), selectedChallenges |-> Some(<<"1", "0">>), passingScore |-> Some(50)] }
ResultsSubmissionBodies == { [answers |-> Some(a), candidateEmail |-> Some(<<"a">>)] : a \in AnswerMaps }

PostChallengeForResults == \E body \in ResultsQuestionBodies : PostChallengeRequest(body)
PostAssessmentForResults == \E body \in ResultsAssessmentBodies : PostAssessmentRequest(body, MaxAssessmentsKept)
SubmitForResults == \E id \in RequestIds, body \in ResultsSubmissionBodies : SubmitRequest(id, body, body, MaxSubmissionsListed)

----------------------------------------------------------------------------
\* Submits that carry the x-assessment-password header, to assessments with
\* and without a password.  The header is recorded with the body.

ProtectedAssessmentBodies ==
    { [selectedChallenges |-> Some(<<"1", "0">>), password |-> Some("abc123")],
      [selectedChallenges |-> Some(<<"1", "0">>)] }

WithHeader(body, providedPassword) == Merge(body, [k \in {"x-assessment-password"} |-> providedPassword])

PostAssessmentProtected == \E body \in ProtectedAssessmentBodies : PostAssessmentRequest(body, MaxAssessments)

\* Mutant of SubmitWithPassword: the password is tested first, as on the take route.
SubmitPasswordChecked ==
    \E id \in RequestIds, body \in SubmissionBodies, providedPassword \in Credentials :
        IF getAssessment(id) # Undef /\ PasswordRequired(getAssessment(id)[1], providedPassword)
        THEN /\ Respond("submitAssessment", id, WithHeader(body, providedPassword), 401, [error |-> "Password required", requiresPassword |-> TRUE])
             /\ UNCHANGED <<data, disk, now, requests, others>>
        ELSE SubmitRequest(id, body, WithHeader(body, providedPassword), MaxSubmissions)

\* POST /api/assessments/:id/submit: the handler reads req.params.id and
\* req.body and no header.
SubmitWithPassword ==
    \E id \in RequestIds, body \in SubmissionBodies, providedPassword \in Credentials :
        SubmitRequest(id, body, WithHeader(body, providedPassword), MaxSubmissions)

----------------------------------------------------------------------------
\* Start-up of the server process on the data directory as it is.

\* The files whose reading throws for a reason outside the program.
ReadFailures == { {}, {"assessments"} }

\* Reading a collection file throws: readFileSync fails, or JSON.parse
\* rejects the text.  A file that does not exist is not read.
ReadThrows(collection, failing) == disk[collection] # Undef /\ (collection \in failing \/ disk[collection] = PartialWrite)

\* existsSync(path) ? JSON.parse(readFileSync(path)) : []
ReadCollection(collection) == IF disk[collection] = Undef THEN <<>> ELSE disk[collection][1]

\* Mutant of loadData: a collection whose file cannot be read starts empty,
\* the others are loaded.
loadDataKeepingReadable(failing) == [c \in Collections |-> IF ReadThrows(c, failing) THEN <<>> ELSE ReadCollection(c)]

\* loadData(): the three files are read inside one try; its catch returns
\* defaultData.
loadData(failing) ==
    IF \E c \in Collections : ReadThrows(c, failing)
    THEN [c \in Collections |-> <<>>]
    ELSE [c \in Collections |-> ReadCollection(c)]

\* The process is started anew: new JSONDatabase().  The constructor cannot
\* throw from loadData, and writes nothing.
Restart ==
    \E failing \in ReadFailures :
        /\ data' = loadData(failing)
        /\ Respond("restart", Undef, failing, 0, Undef)
        /\ UNCHANGED <<disk, now, requests, others>>

----------------------------------------------------------------------------
\* The scoring of the submit handler on its own: the counts are given, the
\* score is computed from them as the handler computes it.

InitScore ==
    /\ data = [c \in Collections |-> <<>>]
    /\ disk = [c \in Collections |-> Undef]
    /\ now = 0
    /\ resp = [op |-> "none", params |-> Undef, req |-> Undef, status |-> 0, body |-> Undef]
    /\ requests = <<>>
    /\ refs = [objects |-> <<>>, arrays |-> [store |-> <<>>, copy |-> <<>>], list |-> Undef, seen |-> Undef]
    /\ form = FormReset
    /\ page = PageMounted
    /\ \E totalQuestions \in 0..MaxTotal : \E correctCount \in 0..totalQuestions :
            calc = [correctCount |-> correctCount, totalQuestions |-> totalQuestions, score |-> Undef]

\* const score = totalQuestions > 0 ? Math.round(...) : 0
ComputeScore ==
    /\ calc.score = Undef
    /\ calc' = [calc EXCEPT !.score = Some(Score(calc.correctCount, calc.totalQuestions))]
    /\ UNCHANGED <<data, disk, now, resp, requests, refs, form, page>>

\* The requests of the HTTP API.
Next ==
    \/ Tick
    \/ PostChallenge
    \/ PutChallenge
    \/ DeleteChallenge
    \/ PostAssessment
    \/ GetAssessment
    \/ TakeAssessment
    \/ SubmitAssessment

Spec == Init /\ [][Next]_vars

\* Direct calls of the store's updateAssessment beside the requests that
\* create and score assessments.
NextDb ==
    \/ Tick
    \/ PostChallenge
    \/ PostAssessment
    \/ UpdateAssessment
    \/ SubmitAssessment

SpecDb == Init /\ [][NextDb]_vars

\* The mutating requests of the HTTP API, several submissions being kept.
NextSubmit ==
    \/ Tick
    \/ PostChallenge
    \/ PutChallenge
    \/ DeleteChallenge
    \/ PostAssessment
    \/ SubmitRepeatedly

SpecSubmit == Init /\ [][NextSubmit]_vars

\* The question routes, each write of questions.json succeeding or failing.
NextWriteFail ==
    \/ Tick
    \/ GetChallenges
    \/ PostChallenge
    \/ PutChallenge
    \/ DeleteChallenge
    \/ PostChallengeWriteFails
    \/ PutChallengeWriteFails
    \/ DeleteChallengeWriteFails

SpecWriteFail == Init /\ [][NextWriteFail]_vars

\* The read routes beside the requests that fill the three collections.
NextRead ==
    \/ Tick
    \/ PostChallenge
    \/ PostAssessment
    \/ SubmitAssessment
    \/ GetChallenges
    \/ GetChallenge
    \/ GetAssessments
    \/ GetAssessment
    \/ GetSubmissions
    \/ GetSubmission

SpecRead == Init /\ [][NextRead]_vars

\* POST /api/challenges requests in flight together on the one server
\* process.
NextConcurrent ==
    \/ Tick
    \/ ReceivePostChallenge
    \/ ServePostChallenge

SpecConcurrent == Init /\ [][NextConcurrent]_vars

\* Direct calls of the store's question methods by a caller that keeps a
\* list it was given.
NextSnapshot ==
    \/ Tick
    \/ CreateQuestion
    \/ UpdateQuestion
    \/ DeleteQuestion
    \/ GetQuestions

SpecSnapshot == Init /\ [][NextSnapshot]_vars

\* Several assessments with several submissions each, and their results.
NextResults ==
    \/ Tick
    \/ PostChallengeForResults
    \/ PostAssessmentForResults
    \/ SubmitForResults
    \/ GetResults

SpecResults == Init /\ [][NextResults]_vars

\* Taking and submitting with and without the password.
NextPassword ==
    \/ Tick
    \/ PostChallenge
    \/ PostAssessmentProtected
    \/ TakeAssessment
    \/ SubmitWithPassword

SpecPassword == Init /\ [][NextPassword]_vars

\* Restarts between mutations, some of which fail to write.
NextRestart ==
    \/ Tick
    \/ PostChallenge
    \/ PostChallengeWriteFails
    \/ PostAssessment
    \/ Restart

SpecRestart == Init /\ [][NextRestart]_vars

\* The question form in use.
NextForm ==
    \/ ResetForm
    \/ OptionChange
    \/ AddOption
    \/ RemoveOption
    \/ SelectCorrect

SpecForm == Init /\ [][NextForm]_vars

\* The candidate page from its mounting on.
NextPage ==
    \/ LoadAssessment
    \/ ChangeEmail
    \/ HandleEmailSubmit
    \/ RunEffect
    \/ TimerFires
    \/ ClickSubmit
    \/ SubmitAnswered

SpecPage == Init /\ [][NextPage]_vars

\* The same with the scheduling of the browser: an effect that is due runs
\* after the render, and a timeout that is set fires.
SpecPageFair == SpecPage /\ WF_vars(RunEffect) /\ WF_vars(TimerFires)

\* The score of every pair of counts.
NextScore == ComputeScore

SpecScore == InitScore /\ [][NextScore]_vars

----------------------------------------------------------------------------
\* Properties.

QuestionFields == {"question", "options", "correctAnswer", "difficulty", "category"}

Submitted(status) == resp.op = "submitAssessment" /\ resp.status = status
Took(status) == resp.op = "takeAssessment" /\ resp.status = status

\* correctAnswer is a defined index into a defined options array.
AnswerIndexesOption(q) ==
    LET options == Prop(q, "options")
        correctAnswer == Prop(q, "correctAnswer")
    IN  options # Undef /\ correctAnswer # Undef /\ 0 <= correctAnswer[1] /\ correctAnswer[1] < Len(options[1])

\* C1: after any sequence of POST and PUT /api/challenges requests every
\* stored question satisfies 0 <= correctAnswer < len(options).
C1_StoredAnswerIndexesOption == \A i \in 1..Len(data.questions) : AnswerIndexesOption(data.questions[i])

\* C2: no two entities of one collection share an id, creates at the same
\* clock value included.
C2_IdsUniquePerCollection == \A c \in Collections : \A i, j \in 1..Len(data[c]) : i # j => Prop(data[c][i], "id") # Prop(data[c][j], "id")

\* C3: a successful PUT /api/challenges/:id leaves every field that its body
\* does not supply with the value it had, in the store and in the response.
C3_AbsentFieldsKept ==
    [][ (resp'.op = "putChallenge" /\ resp'.status = 200) =>
            LET index == FindIndex(data.questions, resp'.params)
            IN  \A k \in QuestionFields \ DOMAIN resp'.req :
                    /\ Prop(data'.questions[index], k) = Prop(data.questions[index], k)
                    /\ Prop(resp'.body.challenge, k) = Prop(data.questions[index], k) ]_vars

\* The count C4 states: the entries of selectedChallenges whose question
\* resolves and whose submitted index, when there is one, is its correctAnswer.
MatchingEntries(sel, answers) ==
    { i \in 1..Len(sel) :
        /\ getQuestion(sel[i]) # Undef
        /\ sel[i] \in DOMAIN answers
        /\ answers[sel[i]] # Undef
        /\ answers[sel[i]] = Prop(getQuestion(sel[i])[1], "correctAnswer") }

\* C4: a submit stores correctCount = the number of matching entries (an
\* absent answer never matches) and totalQuestions = len(selectedChallenges).
C4_CorrectCountCountsMatches ==
    Submitted(201) =>
        LET submission == resp.body.submission
            sel == Prop(getAssessment(resp.params)[1], "selectedChallenges")[1]
        IN  /\ submission.correctCount = Some(Cardinality(MatchingEntries(sel, submission.answers[1])))
            /\ submission.totalQuestions = Some(Len(sel))

\* C5: passed is true exactly when score >= the passingScore stored on the
\* assessment, whatever that stored value is, 0 included.
C5_PassedIffScoreReachesStored ==
    Submitted(201) =>
        LET submission == resp.body.submission
            passingScore == Prop(getAssessment(resp.params)[1], "passingScore")
        IN  submission.passed = Some(submission.score[1] >= passingScore[1])

\* C6: an assessment created through POST /api/assessments with passingScore 0
\* and no questions, then submitted, yields score 0 and passed = true.
C6_ZeroThresholdEmptyPasses ==
    [][ ( /\ resp.op = "postAssessment"
          /\ Prop(resp.req, "passingScore") = Some(0)
          /\ Prop(resp.req, "selectedChallenges") = Some(<<>>)
          /\ resp'.op = "submitAssessment"
          /\ resp'.status = 201
          /\ Some(resp'.params) = resp.body.assessment.id ) =>
            /\ resp'.body.submission.score = Some(0)
            /\ resp'.body.submission.passed = Some(TRUE) ]_vars

\* C7: a successful GET /api/assessments/:id/take carries no correctAnswer on
\* any question and no password on the assessment.
C7_TakeHidesAnswersAndPassword ==
    Took(200) =>
        LET assessment == resp.body.assessment
        IN  /\ "password" \notin DOMAIN assessment
            /\ \A i \in 1..Len(assessment.challenges[1]) : "correctAnswer" \notin DOMAIN assessment.challenges[1][i]

\* C7 witness: a granted take with a question, while the authoring fetch of
\* the same id carries the password and that question's correctAnswer.
C7_Witness ==
    /\ Took(200)
    /\ Len(resp.body.assessment.challenges[1]) > 0
    /\ LET authoring == AuthoringView(getAssessment(resp.params)[1])
       IN  /\ "password" \in DOMAIN authoring
           /\ \E i \in 1..Len(authoring.challenges[1]) : "correctAnswer" \in DOMAIN authoring.challenges[1][i]

\* C8: take on an existing assessment is granted whenever it has no secret;
\* with a secret it is granted iff the credential equals the secret, and is
\* otherwise answered 401 with requiresPassword and no assessment content.
C8_TakeGate ==
    (resp.op = "takeAssessment" /\ getAssessment(resp.params) # Undef) =>
        LET secret == Prop(getAssessment(resp.params)[1], "password")
            credential == resp.req.password
            granted == resp.status = 200 /\ "challenges" \in DOMAIN resp.body.assessment
            refused == resp.status = 401 /\ resp.body.requiresPassword = TRUE /\ "assessment" \notin DOMAIN resp.body
        IN  /\ secret = Undef => granted
            /\ (secret # Undef /\ credential = secret) => granted
            /\ (secret # Undef /\ credential # secret) => refused

\* C8 witness: a wrong credential refused on an assessment that has a secret.
C8_Witness ==
    /\ Took(401)
    /\ resp.req.password = Some("wrong")
    /\ Prop(getAssessment(resp.params)[1], "password") = Some("abc123")

\* The request's candidateEmail is missing, empty or whitespace-only.
BlankEmail(body) ==
    LET candidateEmail == Prop(body, "candidateEmail")
    IN  candidateEmail = Undef \/ \A i \in 1..Len(candidateEmail[1]) : candidateEmail[1][i] \in Whitespace

\* A stored candidateEmail: non-empty, no whitespace at either end.
TrimmedNonEmpty(candidateEmail) ==
    /\ candidateEmail # Undef
    /\ candidateEmail[1] # <<>>
    /\ Head(candidateEmail[1]) \notin Whitespace
    /\ candidateEmail[1][Len(candidateEmail[1])] \notin Whitespace

C10_AnswersOnlySubmitAccepted ==
    ( /\ resp.op = "submitAssessment"
      /\ getAssessment(resp.params) # Undef
      /\ DOMAIN resp.req = {"answers"} ) =>
        /\ resp.status = 201
        /\ {"score", "correctCount", "totalQuestions", "passed"} \subseteq DOMAIN resp.body.submission

\* The step handles a request of the given kind (the clock stands still
\* while a handler runs).
Handles(op) == resp'.op = op /\ now' = now

\* C11: DELETE /api/challenges/:id changes only the questions collection:
\* every assessment, its selectedChallenges included, and every submission is
\* the same before and after, in memory and on disk.
C11_DeleteTouchesOnlyQuestions ==
    [][ Handles("deleteChallenge") =>
            /\ data'.assessments = data.assessments
            /\ data'.submissions = data.submissions
            /\ disk'.assessments = disk.assessments
            /\ disk'.submissions = disk.submissions ]_vars

\* C11 witness: a question was deleted while an assessment lists its id and
\* a submission to that assessment is stored.
C11_Witness ==
    /\ resp.op = "deleteChallenge"
    /\ resp.status = 200
    /\ \E i \in 1..Len(data.assessments) :
            /\ Includes(Prop(data.assessments[i], "selectedChallenges")[1], Some(resp.params))
            /\ \E j \in 1..Len(data.submissions) : Prop(data.submissions[j], "assessmentId") = Prop(data.assessments[i], "id")

\* The entries of selectedChallenges whose id resolves to a stored question.
Resolving(sel) == { i \in 1..Len(sel) : getQuestion(sel[i]) # Undef }

\* C12: in a submit to an assessment that lists the id of a deleted question,
\* that entry never counts as correct whatever index is submitted for it, and
\* totalQuestions is the full length of selectedChallenges, over which the
\* score is computed.
C12_DeletedQuestionCountsAgainst ==
    [][ (Handles("submitAssessment") /\ resp'.status = 201) =>
            LET submission == resp'.body.submission
                sel == Prop(getAssessment(resp'.params)[1], "selectedChallenges")[1]
            IN  /\ submission.totalQuestions = Some(Len(sel))
                /\ submission.correctCount[1] <= Cardinality(Resolving(sel))
                /\ submission.score = Some(Score(submission.correctCount[1], Len(sel))) ]_vars

\* C12 witness: the clock still reads 0, so every question ever created had
\* id "0"; the questions file was written and the store holds no question,
\* so each was deleted; the submit answered index 1 for "0" and got 0 of 2.
C12_Witness ==
    /\ Submitted(201)
    /\ now = 0
    /\ data.questions = <<>>
    /\ disk.questions = Some(<<>>)
    /\ Prop(getAssessment(resp.params)[1], "selectedChallenges") = Some(<<"1", "0">>)
    /\ Prop(resp.body.submission.answers[1], "0") = Some(1)
    /\ resp.body.submission.correctCount = Some(0)
    /\ resp.body.submission.totalQuestions = Some(2)

\* C13: a successful submit appends exactly one submission and persists it;
\* no request removes a stored submission or changes any of its fields.
C13_SubmissionsAppendOnly ==
    [][ /\ Len(data'.submissions) = Len(data.submissions) + (IF Handles("submitAssessment") /\ resp'.status = 201 THEN 1 ELSE 0)
        /\ \A i \in 1..Len(data.submissions) : i <= Len(data'.submissions) /\ data'.submissions[i] = data.submissions[i]
        /\ Len(data'.submissions) > Len(data.submissions) => disk'.submissions = Some(JSONArr(data'.submissions)) ]_vars

\* C13 witness: two submissions are stored, the first scored a question as
\* correct, and the last request deleted the last stored question.
C13_Witness ==
    /\ Len(data.submissions) = MaxSubmissionsKept
    /\ Prop(data.submissions[1], "correctCount")[1] > 0
    /\ resp.op = "deleteChallenge"
    /\ resp.status = 200
    /\ data.questions = <<>>

\* What GET /api/challenges would list.
Listed == JSONArr(getQuestions)

\* C14: a create, update or delete whose durable write fails answers 500 and
\* leaves what list and get return as it was before the request.
C14_FailedWriteExposesNothing ==
    [][ (resp'.status = 500 /\ now' = now) => Listed' = Listed ]_vars

\* No stored question has the id.
AbsentQuestion(id) == \A i \in 1..Len(data.questions) : Prop(data.questions[i], "id") # Some(id)

\* The step takes exactly the i-th question out of the collection.
RemovesQuestion(i) ==
    /\ Len(data'.questions) = Len(data.questions) - 1
    /\ \A j \in 1..Len(data'.questions) : data'.questions[j] = data.questions[IF j < i THEN j ELSE j + 1]

\* C15: PUT and DELETE /api/challenges/:id on an id no stored question has
\* answer 404, create nothing and leave the collections and the files as
\* they were; DELETE on a stored id answers 200 and removes one question
\* that has the id, and the file follows.
C15_MissChangesNothing ==
    [][ /\ ((Handles("putChallenge") \/ Handles("deleteChallenge")) /\ AbsentQuestion(resp'.params)) =>
              /\ resp'.status = 404
              /\ data' = data
              /\ disk' = disk
        /\ (Handles("deleteChallenge") /\ ~AbsentQuestion(resp'.params)) =>
              /\ resp'.status = 200
              /\ \E i \in 1..Len(data.questions) : Prop(data.questions[i], "id") = Some(resp'.params) /\ RemovesQuestion(i)
              /\ disk'.questions = Some(JSONArr(data'.questions)) ]_vars

\* C15 witness: an update missed (404) while the store holds a question with
\* another id, and the file still holds exactly the stored questions.
C15_Witness ==
    /\ resp.op = "putChallenge"
    /\ resp.status = 404
    /\ Len(data.questions) > 0
    /\ AbsentQuestion(resp.params)
    /\ disk.questions = Some(JSONArr(data.questions))

\* C16: every stored assessment has a passingScore in 0..100.
C16_PassingScoreInRange ==
    \A i \in 1..Len(data.assessments) :
        LET passingScore == Prop(data.assessments[i], "passingScore")
        IN  passingScore # Undef /\ passingScore[1] \in 0..100

\* The documented defaults of the two create requests.
QuestionDefaults == [question |-> Some(""), options |-> Some(<<>>), correctAnswer |-> Some(0), difficulty |-> Some("medium"), category |-> Some("General")]
AssessmentDefaults == [title |-> Some(""), selectedChallenges |-> Some(<<>>), timeLimit |-> Some(DefaultTimeLimit), passingScore |-> Some(DefaultPassingScore)]

\* Each field is the one the request supplies, or its default when the
\* request has none.
SuppliedOrDefault(req, entity, defaults) == \A k \in DOMAIN defaults : Prop(entity, k) = IF k \in DOMAIN req THEN req[k] ELSE defaults[k]

\* C17: POST /api/challenges and POST /api/assessments answer 201 with an
\* entity whose fields are those the request supplies, the documented
\* defaults filling only the fields the request lacks.
C17_CreateEchoesSuppliedFields ==
    /\ resp.op = "postChallenge" => resp.status = 201 /\ SuppliedOrDefault(resp.req, resp.body.challenge, QuestionDefaults)
    /\ resp.op = "postAssessment" => resp.status = 201 /\ SuppliedOrDefault(resp.req, resp.body.assessment, AssessmentDefaults)

ScoreFields == {"score", "correctCount", "totalQuestions", "passed"}

\* C18: a successful submit changes neither the questions nor the
\* assessments, in memory or on disk; and when the request before it was a
\* successful submit to the same assessment with the same answers (the
\* questions and the assessment are then the same for both), the two
\* submissions have the same score, correctCount, totalQuestions and passed.
C18_ScoringDeterministicAndPure ==
    [][ (Handles("submitAssessment") /\ resp'.status = 201) =>
            /\ data'.questions = data.questions
            /\ data'.assessments = data.assessments
            /\ disk'.questions = disk.questions
            /\ disk'.assessments = disk.assessments
            /\ (Submitted(201) /\ resp.params = resp'.params /\ resp.body.submission.answers = resp'.body.submission.answers) =>
                  \A k \in ScoreFields : resp'.body.submission[k] = resp.body.submission[k] ]_vars

\* C18 witness: two stored submissions to one assessment with the same
\* answers, made at different clock values, one question having counted as
\* correct, the second being the last request handled.
C18_Witness ==
    /\ Submitted(201)
    /\ Len(data.submissions) = MaxSubmissionsKept
    /\ JSONObj(data.submissions[2]) = resp.body.submission
    /\ Prop(data.submissions[1], "assessmentId") = Prop(data.submissions[2], "assessmentId")
    /\ Prop(data.submissions[1], "answers") = Prop(data.submissions[2], "answers")
    /\ Prop(data.submissions[1], "id") # Prop(data.submissions[2], "id")
    /\ Prop(data.submissions[1], "correctCount")[1] > 0
    /\ \A k \in ScoreFields : Prop(data.submissions[1], k) = Prop(data.submissions[2], k)

ReadOps == {"getChallenges", "getChallenge", "getAssessments", "getAssessment", "getSubmissions", "getSubmission"}

\* C19: a read leaves the store as it was, in memory and on disk, and a read
\* that repeats the request before it (no mutating call lies between the
\* two) returns what that one returned.
C19_ReadsRepeatAndChangeNothing ==
    [][ \A op \in ReadOps :
            Handles(op) =>
                /\ data' = data
                /\ disk' = disk
                /\ (resp.op = op /\ resp.params = resp'.params) => (resp'.status = resp.status /\ resp'.body = resp.body) ]_vars

\* C19 witness: GET /api/challenges has listed two different stored
\* questions, a stored assessment and a stored submission being there too.
C19_Witness ==
    /\ resp.op = "getChallenges"
    /\ Len(resp.body.challenges) = MaxQuestions
    /\ resp.body.challenges[1] # resp.body.challenges[2]
    /\ resp.body.challenges = JSONArr(data.questions)
    /\ Len(data.assessments) > 0
    /\ Len(data.submissions) > 0

\* The traced requests that have been answered 201.
Answered == { i \in 1..Len(requests) : requests[i].status = 201 }

\* Two traced requests arrived on the same state of the store, neither
\* handled before the other arrived, and both have been answered.
BothInFlightThenAnswered ==
    /\ Len(requests) = MaxRequests
    /\ Answered = 1..MaxRequests
    /\ \A i \in 1..MaxRequests : requests[i].snapshot = requests[1].snapshot

\* C20: requests in flight together lose no update.  The store and the file
\* hold one question for every answered create, that of each answered
\* request among them.
C20_NoLostUpdate ==
    /\ Len(data.questions) = Cardinality(Answered)
    /\ \A i \in Answered : \E j \in 1..Len(data.questions) : JSONObj(data.questions[j]) = requests[i].out[1]
    /\ Answered # {} => disk.questions = Some(JSONArr(data.questions))

\* C20 witness: two creates were in flight together, both are answered and
\* the store holds two questions.
C20_Witness ==
    /\ BothInFlightThenAnswered
    /\ Len(data.questions) = MaxRequests

\* C20 as worded: creates in flight together start from the same snapshot,
\* and the last full-collection write keeps only what its writer added to
\* that snapshot, discarding the other writer's question.
C20_SecondWriteDiscardsFirst ==
    BothInFlightThenAnswered => Len(disk.questions[1]) = Len(requests[1].snapshot) + 1

\* The routes that mutate the store, each with the collection it mutates.
Mutates == [postChallenge |-> "questions", putChallenge |-> "questions", deleteChallenge |-> "questions", postAssessment |-> "assessments", submitAssessment |-> "submissions"]

\* C21: after every create, update or delete that answers successfully the
\* file of the affected collection holds the whole in-memory collection, in
\* its order, and the files of the other two collections are as they were.
C21_WholeCollectionPersisted ==
    [][ \A op \in DOMAIN Mutates :
            (Handles(op) /\ resp'.status \in {200, 201}) =>
                /\ disk'[Mutates[op]] = Some(JSONArr(data'[Mutates[op]]))
                /\ \A c \in Collections \ {Mutates[op]} : disk'[c] = disk[c] ]_vars

\* C21 witness: a delete left one of two questions, the questions file holds
\* exactly that one, the assessments file was written earlier and no
\* submissions file exists.
C21_Witness ==
    /\ resp.op = "deleteChallenge"
    /\ resp.status = 200
    /\ Len(data.questions) = 1
    /\ disk.questions = Some(JSONArr(data.questions))
    /\ disk.assessments = Some(JSONArr(data.assessments))
    /\ Len(data.assessments) > 0
    /\ disk.submissions = Undef

\* C22: a list that getQuestions returned has the store's order, which is
\* the order of insertion, and whatever create, update or delete follows,
\* it still holds what it held when it was returned.
C22_ReturnedListIsSnapshot ==
    /\ data.questions = Deref(refs.arrays.store)
    /\ refs.list # Undef =>
          /\ Deref(refs.arrays[refs.list[1]]) = refs.seen[1]
          /\ \A i, j \in 1..Len(refs.seen[1]) : i < j => refs.seen[1][i].createdAt[1] <= refs.seen[1][j].createdAt[1]

\* C22 witness: a returned list of two questions is held, and since then the
\* first was updated and the second deleted in the store.
C22_Witness ==
    /\ refs.list # Undef
    /\ Len(refs.seen[1]) = MaxQuestions
    /\ Len(data.questions) = 1
    /\ Prop(data.questions[1], "updatedAt") # Undef
    /\ Prop(refs.seen[1][1], "updatedAt") = Undef
    /\ Prop(data.questions[1], "createdAt") = Prop(refs.seen[1][1], "createdAt")
    /\ Prop(data.questions[1], "createdAt") # Prop(refs.seen[1][2], "createdAt")

\* The ids of a list of selected ids that resolve to a stored question.
ResolvingIds(sel) ==
    LET resolves(id) == getQuestion(id) # Undef
    IN  SelectSeq(sel, resolves)

\* No two stored questions have the same id.
DistinctQuestionIds == \A i, j \in 1..Len(data.questions) : data.questions[i].id = data.questions[j].id => i = j

\* C23: the questions GET /api/assessments/:id/take returns are in the order
\* of the assessment's selectedChallenges, the ids that do not resolve left
\* out, in whatever order the questions were created.
C23_TakeFollowsSelectedOrder ==
    (resp.op = "takeAssessment" /\ resp.status = 200 /\ DistinctQuestionIds) =>
        LET sel == Prop(getAssessment(resp.params)[1], "selectedChallenges")
            challenges == Prop(resp.body.assessment, "challenges")[1]
            expected == ResolvingIds(IF sel = Undef THEN <<>> ELSE sel[1])
        IN  /\ Len(challenges) = Len(expected)
            /\ \A i \in 1..Len(expected) : Prop(challenges[i], "id") = Some(expected[i])

\* C24: the score is correctCount / totalQuestions * 100 rounded half up,
\* that is (200 * correctCount + totalQuestions) \div (2 * totalQuestions),
\* and 0 when there are no questions; it lies in 0..100 and correctCount is
\* at most totalQuestions.
C24_ScoreIsExactHalfUp ==
    calc.score # Undef =>
        /\ calc.score[1] = (IF calc.totalQuestions > 0 THEN (200 * calc.correctCount + calc.totalQuestions) \div (2 * calc.totalQuestions) ELSE 0)
        /\ calc.score[1] \in 0..100
        /\ calc.correctCount <= calc.totalQuestions

\* The stored submissions of the assessment the last request named.
OfRequested == { i \in 1..Len(data.submissions) : data.submissions[i].assessmentId = Some(resp.params) }

RECURSIVE SumOver(_, _)
SumOver(S, field) == IF S = {} THEN 0 ELSE LET i == CHOOSE i \in S : TRUE IN field[i] + SumOver(S \ {i}, field)

\* n is x / d rounded to an integer: no further than a half from it.
RoundOf(n, x, d) == 2 * (n * d - x) <= d /\ 2 * (x - n * d) <= d

\* C25: GET /api/assessments/:id/results answers 404 when there is no such
\* assessment; otherwise totalSubmissions counts the stored submissions of
\* that assessment, averageScore is their mean score rounded, passRate the
\* rounded percentage of them that passed, both 0 when there are none, and
\* the submissions listed are exactly those of that assessment.
C25_ResultsOfOneAssessment ==
    resp.op = "getResults" =>
        LET n == Cardinality(OfRequested)
            scores == [i \in OfRequested |-> data.submissions[i].score[1]]
            passes == [i \in OfRequested |-> IF data.submissions[i].passed = Some(TRUE) THEN 1 ELSE 0]
            results == resp.body.results
        IN  IF \A i \in 1..Len(data.assessments) : data.assessments[i].id # Some(resp.params)
            THEN resp.status = 404
            ELSE /\ resp.status = 200
                 /\ results.totalSubmissions = n
                 /\ IF n = 0 THEN results.averageScore = 0 ELSE RoundOf(results.averageScore, SumOver(OfRequested, scores), n)
                 /\ IF n = 0 THEN results.passRate = 0 ELSE RoundOf(results.passRate, 100 * SumOver(OfRequested, passes), n)
                 /\ Len(results.submissions) = n
                 /\ \A i \in 1..Len(data.submissions) :
                        (i \in OfRequested) <=> \E j \in 1..n : results.submissions[j] = JSONObj(data.submissions[i])

\* C25 witness: results of an assessment with two submissions, one passed
\* with 100 and one failed with 0, while a third submission belongs to
\* another assessment.
C25_Witness ==
    /\ resp.op = "getResults" /\ resp.status = 200
    /\ Len(data.submissions) = 3
    /\ resp.body.results.totalSubmissions = 2
    /\ resp.body.results.averageScore = 50
    /\ resp.body.results.passRate = 50

\* The last request came without the password of the assessment it named,
\* which has one.
WithoutThePassword ==
    /\ getAssessment(resp.params) # Undef
    /\ Prop(getAssessment(resp.params)[1], "password") \notin {Undef, Some("")}
    /\ Prop(resp.req, "x-assessment-password") # Prop(getAssessment(resp.params)[1], "password")

\* C26: a submit to an assessment that has a password, with a non-empty
\* candidateEmail and no or a wrong x-assessment-password, is answered 201
\* and a scored submission is stored.
C26_SubmitIgnoresPassword ==
    [][ (Handles("submitAssessment") /\ WithoutThePassword' /\ Trim(OrObj(Prop(resp'.req, "candidateEmail"), <<>>)[1]) # <<>>) =>
            /\ resp'.status = 201
            /\ Len(data'.submissions) = Len(data.submissions) + 1
            /\ LET stored == data'.submissions[Len(data'.submissions)]
               IN  /\ stored.assessmentId = Some(resp'.params)
                   /\ stored.score # Undef /\ stored.passed # Undef
                   /\ resp'.body.submission = JSONObj(stored) ]_vars

\* C26 witness: a submit with a wrong password to an assessment that has a
\* password was answered 201 and is stored with the score 100.
C26_Witness ==
    /\ resp.op = "submitAssessment" /\ resp.status = 201
    /\ WithoutThePassword
    /\ Prop(resp.req, "x-assessment-password") = Some("wrong")
    /\ Len(data.submissions) = 1
    /\ data.submissions[1].score = Some(100)

\* The store is as it was when the submission was made: its assessment is
\* there and was not updated, and every question was created before the
\* submit and not updated (no question is deleted where this is used).
UnchangedSince(submission) ==
    /\ \E i \in 1..Len(data.assessments) : data.assessments[i].id = submission.assessmentId
    /\ \A i \in 1..Len(data.assessments) : Prop(data.assessments[i], "updatedAt") = Undef /\ data.assessments[i].createdAt[1] <= submission.submittedAt[1]
    /\ \A i \in 1..Len(data.questions) : Prop(data.questions[i], "updatedAt") = Undef /\ data.questions[i].createdAt[1] < submission.submittedAt[1]

\* The selectedChallenges of the assessment of a submission.
SelectedOf(submission) ==
    LET a == CHOOSE i \in 1..Len(data.assessments) : data.assessments[i].id = submission.assessmentId /\ \A j \in 1..(i - 1) : data.assessments[j].id # submission.assessmentId
    IN  data.assessments[a].selectedChallenges[1]

\* C27: with no id twice in selectedChallenges and the assessment and the
\* questions as they were at the submit, the detailedAnswers of
\* GET /api/submissions/:id has as many entries with isCorrect true as the
\* stored correctCount says, and an entry exactly for the ids that resolve.
C27_DetailsAgreeWithCount ==
    (resp.op = "getSubmission" /\ resp.status = 200) =>
        LET stored == data.submissions[CHOOSE i \in 1..Len(data.submissions) : data.submissions[i].id = Some(resp.params)]
            detailedAnswers == resp.body.submission.detailedAnswers[1]
        IN  (UnchangedSince(stored) /\ \A i, j \in 1..Len(SelectedOf(stored)) : SelectedOf(stored)[i] = SelectedOf(stored)[j] => i = j) =>
                /\ DOMAIN detailedAnswers = { id \in { SelectedOf(stored)[i] : i \in 1..Len(SelectedOf(stored)) } : \E q \in 1..Len(data.questions) : data.questions[q].id = Some(id) }
                /\ Cardinality({ id \in DOMAIN detailedAnswers : detailedAnswers[id].isCorrect = Some(TRUE) }) = stored.correctCount[1]

\* C27 witness: the details of a submission of two selected ids of which one
\* resolves, answered correctly.
C27_Witness ==
    /\ resp.op = "getSubmission" /\ resp.status = 200
    /\ UnchangedSince(data.submissions[1])
    /\ Len(SelectedOf(data.submissions[1])) = 2
    /\ DOMAIN resp.body.submission.detailedAnswers[1] = {"0"}
    /\ resp.body.submission.detailedAnswers[1]["0"].isCorrect = Some(TRUE)
    /\ data.submissions[1].correctCount = Some(1)

\* Reading some existing collection file fails: its text does not parse, or
\* it is among the files given as unreadable.
SomeFileFails(unreadable) == \E c \in Collections : disk[c] # Undef /\ (disk[c] = PartialWrite \/ c \in unreadable)

\* C28: a start-up at which reading or parsing one of the three files fails
\* raises no error and leaves all three collections empty, and the files as
\* they were; the first mutation of a collection after it rewrites that
\* collection's file with the new entity alone.
C28_FailedLoadStartsEmpty ==
    [][ /\ (Handles("restart") /\ SomeFileFails(resp'.req)) =>
            /\ \A c \in Collections : data'[c] = <<>>
            /\ disk' = disk
        /\ \A op \in {"postChallenge", "postAssessment"} :
            (resp.op = "restart" /\ SomeFileFails(resp.req) /\ Handles(op) /\ resp'.status = 201) =>
                /\ Len(data'[Mutates[op]]) = 1
                /\ disk'[Mutates[op]] = Some(JSONArr(data'[Mutates[op]]))
                /\ \A c \in Collections \ {Mutates[op]} : disk'[c] = disk[c] ]_vars

\* C28 witness: a start-up failed to load, so that the stored assessment,
\* whose file holds it still, is gone from memory; a question created
\* afterwards is now the whole of questions.json.
C28_Witness ==
    /\ resp.op = "postChallenge" /\ resp.status = 201
    /\ disk.questions = Some(<<resp.body.challenge>>)
    /\ data.assessments = <<>>
    /\ disk.assessments \notin {Undef, PartialWrite, Some(<<>>)}

\* C29: from the reset form of four options with the first one correct,
\* adding options, removing options and choosing the correct one keep the
\* number of options within 2..6 and correctAnswer an index of an option.
C29_FormInRange ==
    /\ Len(form.options) \in 2..6
    /\ form.correctAnswer \in 0..(Len(form.options) - 1)

\* C29 witness: of the four options of the reset form two are left after
\* removals, both with a text typed in, and the second one is the correct one.
C29_Witness ==
    /\ Len(form.options) = 2
    /\ form.correctAnswer = 1
    /\ form.options = <<"x", "x">>

\* The countdown is running: the assessment is started with a time left.
CountingDown == page.assessmentStarted /\ page.timeRemaining # Undef /\ page.timeRemaining[1] > 0

\* A submit request with the trimmed email has been issued.
SubmitIssued == \E i \in 1..Len(page.sent) : page.sent[i].candidateEmail = Trim(page.candidateEmail)

\* C30: the countdown of the candidate page runs only once the assessment
\* is started with a valid non-empty email; the time remaining then goes
\* down by exactly 1 at a tick, never up and never below 0; and a started
\* assessment with a positive time limit eventually issues a submit request
\* that carries the trimmed email.
C30_CountdownEndsInSubmit ==
    /\ [](page.timer => (page.assessmentStarted /\ EmailValid(Trim(page.candidateEmail))))
    /\ [](page.timeRemaining # Undef => page.timeRemaining[1] >= 0)
    /\ [][(page.timeRemaining # Undef /\ page'.timeRemaining # page.timeRemaining) => page'.timeRemaining = Some(page.timeRemaining[1] - Fraction)]_vars
    /\ (CountingDown ~> SubmitIssued)

====
